---- MODULE Spec2Model ----
(***************************************************************************)
(* Model of the request pipeline of Snooland (src/mod.ts): the rate-limit  *)
(* gate of RedditAnon.fetch, the token check and grant of RedditOauth      *)
(* (fetch / getNewToken) and the listing traversal RedditAnon.paginate.    *)
(*                                                                         *)
(* One action is one run of JavaScript between two await points of the     *)
(* event loop.  Time is Date.now() in milliseconds.                        *)
(***************************************************************************)
EXTENDS Integers, Sequences, FiniteSets, TLC

VARIABLES
  options,      \* the RedditInit record the session was constructed from
  listener,     \* TRUE iff an 'error' listener is registered on the session
  now,          \* Date.now()
  ticks,        \* number of clock advances so far
  token,        \* RedditOauth.token
  rateLimit,    \* RedditAnon.rateLimit
  pc,           \* position of every fetch call
  auth,         \* Authorization value each call handed to super.fetch
  timerDue,     \* instant at which the setTimeout of a waiting call is due
  result,       \* what the call's promise settled with
  grants,       \* number of POSTs to the access_token endpoint so far
  resetAt,      \* instant the server's window resets, as the headers told
  issued,       \* per waiting call: resetAt when it found no budget left
  sent,         \* per call: what held at the instant of its network send,
                \* and whether its exchange was in flight together with
                \* another one
  body,         \* per call: the decoded JSON its promise resolved with
  pg,           \* the locals of the running paginate call
  requests,     \* the `after` query value of every request paginate issued
  served,       \* the listing pages the server answered paginate with
  cbLog,        \* the invocations of paginate's callback
  steps,        \* per call: the steps of fetch it has gone through, in order
  lastHeaders,  \* the rate-limit headers of the last completed exchange
  cohort,       \* the calls that were suspended at the gate together when
                \* the first of them was released, since the rate-limit
                \* state was last stored
  init,         \* the argument Reddit.create was called with
  session,      \* what Reddit.create made of it
  peers,        \* the other sessions of the process: each one's rateLimit
                \* and the position of its fetch call
  emitted       \* the payloads of the 'tokenRefreshed' events emitted so far

fetchVars == <<pc, auth, timerDue, result, grants, issued, sent, steps>>

pgVars == <<pg, requests, served, cbLog>>

vars == <<options, listener, now, ticks, token, rateLimit, pc, auth,
          timerDue, result, grants, resetAt, issued, sent, body, pg,
          requests, served, cbLog, steps, lastHeaders, cohort, init,
          session, peers, emitted>>

----------------------------------------------------------------------------
(* Bounds of the model *)

NProcs == 2
MaxTicks == 2
MaxGrants == 2
T0 == 1000000

Procs == 1..NProcs
TickMs == {1000}
ExpiresIn == {1}

----------------------------------------------------------------------------
(* JavaScript values *)

Undefined == -1
NaN == -999999
OptAccess == 0

\* response headers as the strings headers.get returns ("null": header absent)
NumericHeader == [h \in {"-1", "0", "2"} |->
                    CASE h = "-1" -> 0 - 1
                      [] h = "0" -> 0
                      [] h = "2" -> 2]

Number(h) ==
  IF h = "null" THEN 0
  ELSE IF h \in DOMAIN NumericHeader THEN NumericHeader[h]
  ELSE NaN

\* the (x-ratelimit-remaining, x-ratelimit-reset) pairs a response may carry
Headers == { <<"null", "null">>, <<"abc", "abc">>, <<"-1", "2">>,
             <<"0", "2">> }

----------------------------------------------------------------------------
(* Session construction *)

NoOptions == [clientId |-> FALSE, username |-> FALSE, password |-> FALSE,
              refreshToken |-> FALSE, accessToken |-> FALSE,
              tokenExpiry |-> Undefined]

ScriptOptions == [NoOptions EXCEPT !.clientId = TRUE, !.username = TRUE,
                                   !.password = TRUE]

WebOptions(withAccess, exp) ==
  [NoOptions EXCEPT !.clientId = TRUE, !.refreshToken = TRUE,
                    !.accessToken = withAccess, !.tokenExpiry = exp]

StaticOptions == [NoOptions EXCEPT !.accessToken = TRUE]

\* a script record that also carries a refresh token: Reddit.create takes it
\* by its first branch (line 46)
ScriptRefreshOptions == [ScriptOptions EXCEPT !.refreshToken = TRUE]

\* the option records Reddit.create accepts
InitOptions ==
  {NoOptions, ScriptOptions, ScriptRefreshOptions, StaticOptions,
   WebOptions(FALSE, Undefined)}
  \cup {WebOptions(TRUE, e) : e \in {T0 - 1000, T0, T0 + 2000}}

IsOauth == options # NoOptions

\* lines 347-351
AppTypeOf(o) ==
  IF o.password THEN "script"
  ELSE IF o.refreshToken THEN "web"
  ELSE "undefined"

appType == AppTypeOf(options)

RefreshOpt == 1

NewToken(o) ==
  [access  |-> IF o.accessToken THEN OptAccess ELSE Undefined,
   refresh |-> IF o.refreshToken THEN RefreshOpt ELSE Undefined,
   expiry  |-> o.tokenExpiry]

\* the arguments of Reddit.create: `given` tells an options object from
\* undefined, the other fields tell whether the property is set (truthy)
Absent ==
  [given |-> FALSE, userAgent |-> FALSE, clientId |-> FALSE,
   clientSecret |-> FALSE, username |-> FALSE, password |-> FALSE,
   refreshToken |-> FALSE, accessToken |-> FALSE, tokenExpiry |-> Undefined]

Expiries == {Undefined, T0 + 2000}

RedditInits ==
  {Absent} \cup
  [given : {TRUE}, userAgent : BOOLEAN, clientId : BOOLEAN,
   clientSecret : BOOLEAN, username : BOOLEAN, password : BOOLEAN,
   refreshToken : BOOLEAN, accessToken : BOOLEAN, tokenExpiry : Expiries]

\* Object.keys(options).length (line 41)
Keys(o) ==
  Cardinality({f \in {"userAgent", "clientId", "clientSecret", "username",
                      "password", "refreshToken", "accessToken"} : o[f]})
  + (IF o.tokenExpiry # Undefined THEN 1 ELSE 0)

NoSession == [kind |-> "unset", appType |-> "undefined"]

AnonSession == [kind |-> "anon", appType |-> "undefined"]

OauthSession(o) == [kind |-> "oauth", appType |-> AppTypeOf(o)]

MissingCredentials == [kind |-> "TypeError", appType |-> "undefined"]

\* Reddit.create (lines 36-58) with the RedditOauth constructor's choice of
\* appType (lines 347-351)
create(o) ==
  IF ~o.given THEN AnonSession
  ELSE IF Keys(o) = 1 /\ o.userAgent THEN AnonSession
  ELSE IF o.clientId /\ o.clientSecret
       THEN IF o.username /\ o.password THEN OauthSession(o)
            ELSE IF o.refreshToken THEN OauthSession(o)
            ELSE MissingCredentials
  ELSE IF o.accessToken THEN OauthSession(o)
  ELSE MissingCredentials

\* the fields of the argument the RedditOauth constructor keeps (lines
\* 337-346)
OptionsOf(o) ==
  [clientId |-> o.clientId, username |-> o.username,
   password |-> o.password, refreshToken |-> o.refreshToken,
   accessToken |-> o.accessToken, tokenExpiry |-> o.tokenExpiry]

\* the argument a session's options came from
InitOf(o) ==
  IF o = NoOptions THEN Absent
  ELSE [given |-> TRUE, userAgent |-> FALSE, clientId |-> o.clientId,
        clientSecret |-> o.clientId, username |-> o.username,
        password |-> o.password, refreshToken |-> o.refreshToken,
        accessToken |-> o.accessToken, tokenExpiry |-> o.tokenExpiry]

\* the other sessions of the process
NSessions == 1

Sessions == 1..NSessions

\* a session as constructed: the rateLimit of lines 95-98, no call running
NewSession ==
  [rateLimit |-> [reqRemaining |-> 60, resetMs |-> now + 60000],
   pc |-> "idle", due |-> Undefined]

\* decoded response bodies
NoBody == [kind |-> "none"]
Json == [kind |-> "json"]
ErrorBody == [kind |-> "error"]

\* a Thing<Listing<T>>: children base+1 .. base+n and the `after` cursor
Page(base, n, after) ==
  [kind |-> "listing", items |-> [j \in 1..n |-> base + j], after |-> after]

PageSizes == {0, 40, 100}
Bases == {0, 1000}
Afters == {"null", "", "t3_a", "t3_b"}
ListingPages == {Page(b, n, a) : b \in Bases, n \in PageSizes, a \in Afters}

PgProc == 1
NoPaginate == [pc |-> "idle"]

NoHeaders == <<>>

NoSend == [done |-> FALSE, tokenLive |-> FALSE, beforeReset |-> FALSE,
           together |-> FALSE]

Init ==
  /\ options \in InitOptions
  /\ listener \in BOOLEAN
  /\ now = T0
  /\ ticks = 0
  /\ token = NewToken(options)
  /\ rateLimit = [reqRemaining |-> 60, resetMs |-> T0 + 60000]
  /\ pc = [p \in Procs |-> "idle"]
  /\ auth = [p \in Procs |-> Undefined]
  /\ timerDue = [p \in Procs |-> Undefined]
  /\ result = [p \in Procs |-> "none"]
  /\ grants = 0
  /\ resetAt = T0 + 60000
  /\ issued = [p \in Procs |-> Undefined]
  /\ sent = [p \in Procs |-> NoSend]
  /\ body = [p \in Procs |-> NoBody]
  /\ pg = NoPaginate
  /\ requests = <<>>
  /\ served = <<>>
  /\ cbLog = <<>>
  /\ steps = [p \in Procs |-> <<>>]
  /\ lastHeaders = NoHeaders
  /\ cohort = {}
  /\ init = InitOf(options)
  /\ session = create(init)
  /\ peers = [s \in Sessions |-> NewSession]
  /\ emitted = <<>>

----------------------------------------------------------------------------
(* EventEmitter.emit("error", e): throws e when no listener is registered *)

EmitErrorThrows == ~listener

----------------------------------------------------------------------------
(* RedditAnon.fetch *)

\* the network call of line 119, issued by call p
Send(p, issuedAt) ==
  /\ pc' = [pc EXCEPT ![p] = "inflight"]
  /\ sent' = [q \in Procs |->
       IF q = p
       THEN [done |-> TRUE,
             tokenLive |-> token.expiry # Undefined /\ token.expiry > now,
             beforeReset |-> issuedAt # Undefined /\ now < issuedAt,
             together |-> \E r \in Procs \ {p} : pc[r] = "inflight"]
       ELSE IF pc[q] = "inflight" THEN [sent[q] EXCEPT !.together = TRUE]
       ELSE sent[q]]

\* setTimeout(resolve, resetMs - Date.now()): a delay that is not positive
\* (or NaN) is due at once
TimerDue ==
  IF rateLimit.resetMs # NaN /\ rateLimit.resetMs > now
  THEN rateLimit.resetMs ELSE now

\* the steps call p has logged when it enters RedditAnon.fetch: those of
\* RedditOauth.fetch on an authenticated session, none on an anonymous one
Prior(p) ==
  IF pc[p] = "tokenReturned" THEN steps[p]
  ELSE IF IsOauth THEN <<"token">>
  ELSE <<>>

\* a fetch that goes to the network without consulting the budget
SuperFetchNoGate(p, authorization) ==
  /\ auth' = [auth EXCEPT ![p] = authorization]
  /\ Send(p, Undefined)
  /\ steps' = [steps EXCEPT ![p] =
                 Prior(p) \o <<"send">>]
  /\ UNCHANGED <<timerDue, issued>>

\* lines 99-122, up to the first await
SuperFetch(p, authorization) ==
  /\ auth' = [auth EXCEPT ![p] = authorization]
  /\ IF rateLimit.reqRemaining = 0
     THEN /\ pc' = [pc EXCEPT ![p] = "waiting"]
          /\ timerDue' = [timerDue EXCEPT ![p] = TimerDue]
          /\ issued' = [issued EXCEPT ![p] = resetAt]
          /\ steps' = [steps EXCEPT ![p] = Prior(p) \o <<"gate", "wait">>]
          /\ UNCHANGED sent
     ELSE /\ Send(p, Undefined)
          /\ steps' = [steps EXCEPT ![p] = Prior(p) \o <<"gate", "send">>]
          /\ UNCHANGED <<timerDue, issued>>

\* the timer of line 111 fires
TimerFires(p) ==
  /\ pc[p] = "waiting"
  /\ now >= timerDue[p]
  /\ Send(p, issued[p])
  /\ timerDue' = [timerDue EXCEPT ![p] = Undefined]
  /\ issued' = [issued EXCEPT ![p] = Undefined]
  /\ steps' = [steps EXCEPT ![p] = Append(steps[p], "send")]
  /\ cohort' = IF p \in cohort THEN cohort
               ELSE {q \in Procs : pc[q] = "waiting"}
  /\ UNCHANGED <<options, listener, now, ticks, token, rateLimit,
                 auth, result, grants, resetAt, body, pgVars, lastHeaders,
                 init, session, peers, emitted>>

\* what res.json() of line 135 can decode to
Bodies(p, ok) ==
  IF ~ok THEN {ErrorBody}
  ELSE IF p = PgProc /\ pg.pc = "fetching" THEN ListingPages
  ELSE {Json}

\* a fetch that sends its request again whenever the status is not 2xx
ResponseResends(p) ==
  /\ pc[p] = "inflight"
  /\ \E ok \in BOOLEAN, h \in Headers :
       /\ lastHeaders' = h
       /\ rateLimit' = [reqRemaining |-> Number(h[1]),
                        resetMs |-> Number(h[2])]
       /\ resetAt' = IF h[2] \in DOMAIN NumericHeader
                     THEN now + NumericHeader[h[2]] * 1000
                     ELSE Undefined
       /\ cohort' = {}
       /\ IF ok
          THEN /\ pc' = [pc EXCEPT ![p] = "resolved"]
               /\ result' = [result EXCEPT ![p] = "json"]
               /\ steps' = [steps EXCEPT ![p] =
                              steps[p] \o <<"update", "result">>]
               /\ body' = [body EXCEPT ![p] = Json]
          ELSE /\ steps' = [steps EXCEPT ![p] =
                              steps[p] \o <<"httpError", "update", "send">>]
               /\ UNCHANGED <<pc, result, body>>
  /\ UNCHANGED <<options, listener, now, ticks, token, auth,
                 timerDue, grants, issued, sent, pgVars,
                 init, session, peers, emitted>>

\* lines 124-135: the response of call p arrives
Response(p) ==
  /\ pc[p] = "inflight"
  /\ \E ok \in BOOLEAN, h \in Headers :
       /\ lastHeaders' = h
       /\ IF ~ok /\ EmitErrorThrows
          THEN /\ pc' = [pc EXCEPT ![p] = "rejected"]
               /\ result' = [result EXCEPT ![p] = "HttpError"]
               /\ steps' = [steps EXCEPT ![p] = Append(steps[p], "httpError")]
               /\ UNCHANGED <<rateLimit, resetAt, body, served, cohort>>
          ELSE /\ rateLimit' = [reqRemaining |-> Number(h[1]),
                                resetMs |-> Number(h[2])]
               /\ cohort' = {}
               /\ steps' = [steps EXCEPT ![p] =
                              steps[p] \o (IF ok THEN <<>> ELSE <<"httpError">>)
                                       \o <<"update", "result">>]
               /\ resetAt' = IF h[2] \in DOMAIN NumericHeader
                             THEN now + NumericHeader[h[2]] * 1000
                             ELSE Undefined
               /\ pc' = [pc EXCEPT ![p] = "resolved"]
               /\ result' = [result EXCEPT ![p] = "json"]
               /\ \E b \in Bodies(p, ok) :
                    /\ body' = [body EXCEPT ![p] = b]
                    /\ served' = IF b.kind = "listing" THEN Append(served, b)
                                 ELSE served
  /\ UNCHANGED <<options, listener, now, ticks, token, auth,
                 timerDue, grants, issued, sent, pg, requests, cbLog,
                 init, session, peers, emitted>>

----------------------------------------------------------------------------
(* RedditOauth *)

\* a token check that asks for a new token on every fetch
NeedsTokenAlways == TRUE

\* line 428
NeedsToken == token.expiry = Undefined \/ now > token.expiry

\* getNewToken up to its first await (lines 358-379, 391-410)
GetNewTokenStart(p) ==
  /\ UNCHANGED <<auth, timerDue, issued, sent>>
  /\ IF appType = "web"
     THEN IF token.refresh = Undefined
          THEN /\ pc' = [pc EXCEPT ![p] = IF EmitErrorThrows THEN "rejected"
                                          ELSE "tokenReturned"]
               /\ result' = [result EXCEPT ![p] =
                               IF EmitErrorThrows THEN "AuthError"
                               ELSE "none"]
               /\ steps' = [steps EXCEPT ![p] = <<"token", "noRefresh">>]
               /\ UNCHANGED grants
          ELSE /\ pc' = [pc EXCEPT ![p] = "granting"]
               /\ grants' = grants + 1
               /\ result' = [result EXCEPT ![p] = "none"]
               /\ steps' = [steps EXCEPT ![p] = <<"token", "refresh_token">>]
     ELSE IF appType = "script"
     THEN IF ~options.username \/ ~options.password
          THEN /\ pc' = [pc EXCEPT ![p] = "rejected"]
               /\ result' = [result EXCEPT ![p] = "AuthError"]
               /\ steps' = [steps EXCEPT ![p] = <<"token", "noLogin">>]
               /\ UNCHANGED grants
          ELSE /\ pc' = [pc EXCEPT ![p] = "granting"]
               /\ grants' = grants + 1
               /\ result' = [result EXCEPT ![p] = "none"]
               /\ steps' = [steps EXCEPT ![p] = <<"token", "password">>]
     ELSE /\ pc' = [pc EXCEPT ![p] = "tokenReturned"]
          /\ result' = [result EXCEPT ![p] = "none"]
          /\ steps' = [steps EXCEPT ![p] = <<"token", "noGrant">>]
          /\ UNCHANGED grants

\* this.fetch(...) up to its first await: RedditOauth.fetch (lines 424-431)
\* on an authenticated session, RedditAnon.fetch on an anonymous one
Fetch(p) ==
  IF ~IsOauth
  THEN /\ SuperFetch(p, Undefined)
       /\ result' = [result EXCEPT ![p] = "none"]
       /\ UNCHANGED grants
  ELSE IF NeedsToken
       THEN GetNewTokenStart(p)
       ELSE /\ SuperFetch(p, token.access)
            /\ result' = [result EXCEPT ![p] = "none"]
            /\ UNCHANGED grants

\* a caller issues a fetch call
Call(p) ==
  /\ pc[p] = "idle"
  /\ pg.pc = "idle"
  /\ Fetch(p)
  /\ UNCHANGED <<options, listener, now, ticks, token, rateLimit, resetAt,
                 body, pgVars, lastHeaders, cohort,
                 init, session, peers, emitted>>

\* a grant that stores the new access token and expiry only
GrantedTokenDropsRefresh(expires_in) ==
  [access  |-> grants,
   refresh |-> Undefined,
   expiry  |-> now + expires_in * 1000]

\* a grant that carries the refresh token over whatever the app type
GrantedTokenKeepsRefresh(expires_in) ==
  [access  |-> grants,
   refresh |-> token.refresh,
   expiry  |-> now + expires_in * 1000]

\* a grant that stores the new expiry but keeps the old access token
GrantedTokenKeepsAccess(expires_in) ==
  [access  |-> token.access,
   refresh |-> IF appType = "web" THEN token.refresh ELSE Undefined,
   expiry  |-> now + expires_in * 1000]

\* the token setToken stores after a successful grant (lines 384-388 and
\* 416-419); the access token of a grant is numbered by the grants so far
GrantedToken(expires_in) ==
  [access  |-> grants,
   refresh |-> IF appType = "web" THEN token.refresh ELSE Undefined,
   expiry  |-> now + expires_in * 1000]

\* an event that is emitted before the new token is stored
EmitTokenRefreshedStale(log, old, new) == Append(log, old)

\* super.emit("tokenRefreshed", this.token) of line 389, after the setToken
\* of lines 384-388 replaced the token `old` by `new`
EmitTokenRefreshed(log, old, new) == Append(log, new)

\* the grant call of p completes (lines 380-390, 411-420) with one of the
\* given outcomes: a token body, an {error} body, or a transport failure
GrantAnswer(p, outcomes) ==
  /\ pc[p] = "granting"
  /\ \E outcome \in outcomes, expires_in \in ExpiresIn :
       CASE outcome = "ok" ->
              /\ token' = GrantedToken(expires_in)
              /\ emitted' = IF appType = "web"
                            THEN EmitTokenRefreshed(emitted, token, token')
                            ELSE emitted
              /\ pc' = [pc EXCEPT ![p] = "tokenReturned"]
              /\ steps' = [steps EXCEPT ![p] = Append(steps[p], "granted")]
              /\ UNCHANGED result
         [] outcome = "error" ->
              /\ pc' = [pc EXCEPT ![p] = IF EmitErrorThrows THEN "rejected"
                                         ELSE "tokenReturned"]
              /\ result' = [result EXCEPT ![p] =
                              IF EmitErrorThrows THEN "AuthError"
                              ELSE "none"]
              /\ steps' = [steps EXCEPT ![p] = Append(steps[p], "grantError")]
              /\ UNCHANGED <<token, emitted>>
         [] outcome = "reject" ->
              /\ pc' = [pc EXCEPT ![p] = "rejected"]
              /\ result' = [result EXCEPT ![p] = "NetworkError"]
              /\ steps' = [steps EXCEPT ![p] =
                             Append(steps[p], "grantReject")]
              /\ UNCHANGED <<token, emitted>>
  /\ UNCHANGED <<options, listener, now, ticks, rateLimit, auth,
                 timerDue, grants, resetAt, issued, sent, body, pgVars,
                 lastHeaders, cohort, init, session, peers>>

\* a grant whose transport failure is swallowed: getNewToken returns and
\* the fetch goes on
GrantResponseSwallows(p) ==
  /\ pc[p] = "granting"
  /\ pc' = [pc EXCEPT ![p] = "tokenReturned"]
  /\ steps' = [steps EXCEPT ![p] = Append(steps[p], "grantReject")]
  /\ UNCHANGED <<options, listener, now, ticks, token, rateLimit, auth,
                 timerDue, result, grants, resetAt, issued, sent, body,
                 pgVars, lastHeaders, cohort, init, session, peers, emitted>>

GrantResponse(p) == GrantAnswer(p, {"ok", "error", "reject"})

\* lines 432-438: getNewToken has returned, the call goes on to super.fetch
AfterToken(p) ==
  /\ pc[p] = "tokenReturned"
  /\ SuperFetch(p, token.access)
  /\ UNCHANGED <<options, listener, now, ticks, token, rateLimit,
                 result, grants, resetAt, body, pgVars, lastHeaders, cohort,
                 init, session, peers, emitted>>

----------------------------------------------------------------------------
(* RedditAnon.paginate *)

\* the listing parameters a caller passes: `limit` and `after`, each optional
Limits == {Undefined, 0, 50, 150, 250}
CallerAfters == {"unset", "t3_a"}

\* !json.data.after of line 153
Falsy(after) == after \in {"null", ""}

\* the number line 155 subtracts per page
PageStep == 100

\* a traversal that takes three pages when the caller names no limit
LimitOrDefaultThreePages(limit) ==
  IF limit = Undefined \/ limit = 0 THEN 300 ELSE limit

\* params?.limit || 100 of line 146
LimitOrDefault(limit) == IF limit = Undefined \/ limit = 0 THEN 100 ELSE limit

\* an accumulator that is cut at the caller's limit
AccumulateTruncated(items, newItems) ==
  LET all == items \o newItems
      cap == LimitOrDefault(pg.params.limit)
  IN  IF Len(all) > cap THEN SubSeq(all, 1, cap) ELSE all

\* items.push(...newItems) of line 151
Accumulate(items, newItems) == items \o newItems

\* a cursor that is never advanced
NextCursorStuck(cursor, after) == cursor

\* url.searchParams.set("after", json.data.after) of line 154
NextCursor(cursor, after) == after

\* a callback that is skipped for an empty page
InvokeCallbackNonEmpty(log, newItems, items) ==
  IF newItems = <<>> THEN log
  ELSE Append(log, [items |-> newItems, total |-> Len(items),
                    requests |-> Len(requests)])

\* if (callback) callback(newItems) of line 152; the log entry also records
\* how many items were accumulated and how many requests had been issued
InvokeCallback(log, newItems, items) ==
  Append(log, [items |-> newItems, total |-> Len(items),
               requests |-> Len(requests)])

\* a traversal that requests a page and at once the one after it
IssueRequestAhead(reqs, cursor) == reqs \o <<cursor, cursor>>

\* this.fetch(url) of line 149: one request, for the page the url's `after`
\* names
IssueRequest(reqs, cursor) == Append(reqs, cursor)

\* lines 143-149: paginate is called and issues its first request
Paginate ==
  /\ pg.pc = "idle"
  /\ requests = <<>>
  /\ \A p \in Procs : pc[p] = "idle"
  /\ \E limit \in Limits, after \in CallerAfters, callback \in BOOLEAN :
       /\ pg' = [pc |-> "fetching", items |-> <<>>, after |-> after,
                 limit |-> LimitOrDefault(limit), callback |-> callback,
                 params |-> [limit |-> limit, after |-> after]]
       /\ requests' = IssueRequest(<<>>, after)
  /\ Fetch(PgProc)
  /\ UNCHANGED <<options, listener, now, ticks, token, rateLimit, resetAt,
                 body, served, cbLog, lastHeaders, cohort,
                 init, session, peers, emitted>>

\* lines 150-156: a page has arrived; paginate takes it and either issues the
\* next request or returns
PageDone ==
  /\ pg.pc = "fetching"
  /\ pc[PgProc] = "resolved"
  /\ IF body[PgProc].kind # "listing"
     THEN \* json.data is undefined: line 150 throws a TypeError
          /\ pg' = [pg EXCEPT !.pc = "error"]
          /\ pc' = [pc EXCEPT ![PgProc] = "idle"]
          /\ UNCHANGED <<auth, timerDue, result, grants, issued, sent,
                         requests, cbLog, steps>>
     ELSE LET newItems == body[PgProc].items
              items == Accumulate(pg.items, newItems)
              after == body[PgProc].after
              cursor == NextCursor(pg.after, after)
              calledBack ==
                IF pg.callback THEN InvokeCallback(cbLog, newItems, items)
                ELSE cbLog
          IN  /\ cbLog' = calledBack
              /\ IF Falsy(after)
                 THEN /\ pg' = [pg EXCEPT !.pc = "done", !.items = items]
                      /\ pc' = [pc EXCEPT ![PgProc] = "idle"]
                      /\ UNCHANGED <<auth, timerDue, result, grants, issued,
                                     sent, requests, steps>>
                 ELSE IF pg.limit - PageStep > 0
                 THEN /\ pg' = [pg EXCEPT !.items = items, !.after = cursor,
                                          !.limit = pg.limit - PageStep]
                      /\ requests' = IssueRequest(requests, cursor)
                      /\ Fetch(PgProc)
                 ELSE /\ pg' = [pg EXCEPT !.pc = "done", !.items = items,
                                          !.after = cursor,
                                          !.limit = pg.limit - PageStep]
                      /\ pc' = [pc EXCEPT ![PgProc] = "idle"]
                      /\ UNCHANGED <<auth, timerDue, result, grants, issued,
                                     sent, requests, steps>>
  /\ UNCHANGED <<options, listener, now, ticks, token, rateLimit, resetAt,
                 body, served, lastHeaders, cohort,
                 init, session, peers, emitted>>

\* line 149: the awaited fetch rejected, and so does paginate
PageFailed ==
  /\ pg.pc = "fetching"
  /\ pc[PgProc] = "rejected"
  /\ pg' = [pg EXCEPT !.pc = "error"]
  /\ pc' = [pc EXCEPT ![PgProc] = "idle"]
  /\ UNCHANGED <<options, listener, now, ticks, token, rateLimit, resetAt,
                 auth, timerDue, result, grants, issued, sent, body,
                 requests, served, cbLog, steps, lastHeaders, cohort,
                 init, session, peers, emitted>>

\* the caller has taken the settled promise of call p: the slot is free for
\* its next fetch
Return(p) ==
  /\ pc[p] \in {"resolved", "rejected"}
  /\ pg.pc = "idle"
  /\ pc' = [pc EXCEPT ![p] = "idle"]
  /\ auth' = [auth EXCEPT ![p] = Undefined]
  /\ result' = [result EXCEPT ![p] = "none"]
  /\ sent' = [sent EXCEPT ![p] = NoSend]
  /\ body' = [body EXCEPT ![p] = NoBody]
  /\ steps' = [steps EXCEPT ![p] = <<>>]
  /\ UNCHANGED <<options, listener, now, ticks, token, rateLimit, timerDue,
                 grants, resetAt, issued, pgVars, lastHeaders, cohort,
                 init, session, peers, emitted>>

\* the tokens external code hands to the public setToken
ExternalTokens ==
  {[access |-> OptAccess, refresh |-> Undefined, expiry |-> e] :
     e \in {Undefined, T0 + 1000}}

\* setToken (lines 354-356), called by code outside the session
SetToken ==
  /\ \E t \in ExternalTokens : token' = t
  /\ token' # token
  /\ UNCHANGED <<options, listener, now, ticks, rateLimit, pc, auth,
                 timerDue, result, grants, resetAt, issued, sent, body,
                 pgVars, steps, lastHeaders, cohort,
                 init, session, peers, emitted>>

\* time passes
Tick ==
  /\ ticks < MaxTicks
  /\ \E d \in TickMs : now' = now + d
  /\ ticks' = ticks + 1
  /\ UNCHANGED <<options, listener, token, rateLimit, pc, auth,
                 timerDue, result, grants, resetAt, issued, sent, body,
                 pgVars, steps, lastHeaders, cohort,
                 init, session, peers, emitted>>

Next ==
  \/ \E p \in Procs : Call(p)
  \/ \E p \in Procs : GrantResponse(p)
  \/ \E p \in Procs : AfterToken(p)
  \/ \E p \in Procs : TimerFires(p)
  \/ \E p \in Procs : Response(p)
  \/ Tick

Spec == Init /\ [][Next]_vars

\* one listing traversal on an anonymous or a script session
PaginateInit == Init /\ options \in {NoOptions, ScriptOptions}

PaginateNext ==
  \/ Paginate
  \/ PageDone
  \/ PageFailed
  \/ GrantResponse(PgProc)
  \/ AfterToken(PgProc)
  \/ TimerFires(PgProc)
  \/ Response(PgProc)

PaginateSpec == PaginateInit /\ [][PaginateNext]_vars

\* fetch calls issued at one instant on a session that holds no live token,
\* against a grant endpoint that answers every grant with a token; every
\* call that has been issued keeps being scheduled
GrantOk(p) == GrantAnswer(p, {"ok"})

ExpiredInit ==
  Init /\ options \in {ScriptOptions, WebOptions(TRUE, T0 - 1000)}

FairNext ==
  \/ \E p \in Procs : Call(p)
  \/ \E p \in Procs : GrantOk(p)
  \/ \E p \in Procs : AfterToken(p)
  \/ \E p \in Procs : TimerFires(p)
  \/ \E p \in Procs : Response(p)

FairSpec ==
  /\ ExpiredInit
  /\ [][FairNext]_vars
  /\ \A p \in Procs : /\ WF_vars(GrantOk(p))
                       /\ WF_vars(AfterToken(p))
                       /\ WF_vars(TimerFires(p))
                       /\ WF_vars(Response(p))

\* one caller that awaits every fetch before it issues the next, until
\* MaxGrants grant calls have been made
SeqCall(p) ==
  /\ \A q \in Procs : pc[q] = "idle"
  /\ grants < MaxGrants
  /\ Call(p)

SeqNext ==
  \/ \E p \in Procs : SeqCall(p)
  \/ \E p \in Procs : GrantResponse(p)
  \/ \E p \in Procs : AfterToken(p)
  \/ \E p \in Procs : TimerFires(p)
  \/ \E p \in Procs : Response(p)
  \/ \E p \in Procs : Return(p)
  \/ Tick

SeqSpec == Init /\ [][SeqNext]_vars

\* concurrent callers of an anonymous session that go on fetching
AnonInit == Init /\ options = NoOptions

AnonNext ==
  \/ \E p \in Procs : Call(p)
  \/ \E p \in Procs : TimerFires(p)
  \/ \E p \in Procs : Response(p)
  \/ \E p \in Procs : Return(p)
  \/ Tick

AnonSpec == AnonInit /\ [][AnonNext]_vars

\* a web session whose token external code replaces through setToken
WebInit == Init /\ appType = "web"

WebNext ==
  \/ \E p \in Procs : Call(p)
  \/ \E p \in Procs : GrantResponse(p)
  \/ \E p \in Procs : AfterToken(p)
  \/ \E p \in Procs : TimerFires(p)
  \/ \E p \in Procs : Response(p)
  \/ SetToken
  \/ Tick

WebSpec == WebInit /\ [][WebNext]_vars

----------------------------------------------------------------------------
(* The other sessions of the process: every RedditAnon instance has its     *)
(* own rateLimit field (lines 95-98)                                        *)

peerFrame ==
  <<options, listener, now, ticks, token, rateLimit, fetchVars, resetAt,
    body, pgVars, lastHeaders, cohort, init, session, emitted>>

\* a static accessor of Reddit (lines 60-82) makes a fresh anonymous session
PeerNew(s) ==
  /\ peers[s].pc = "idle"
  /\ peers[s] # NewSession
  /\ peers' = [peers EXCEPT ![s] = NewSession]
  /\ UNCHANGED peerFrame

\* a fetch on session s up to its first await (lines 99-122)
PeerFetch(s) ==
  /\ peers[s].pc = "idle"
  /\ peers' = [peers EXCEPT ![s] =
       IF peers[s].rateLimit.reqRemaining = 0
       THEN [@ EXCEPT !.pc = "waiting",
                      !.due = IF peers[s].rateLimit.resetMs # NaN
                                 /\ peers[s].rateLimit.resetMs > now
                              THEN peers[s].rateLimit.resetMs ELSE now]
       ELSE [@ EXCEPT !.pc = "inflight"]]
  /\ UNCHANGED peerFrame

\* the timer of line 111 of session s fires
PeerTimer(s) ==
  /\ peers[s].pc = "waiting"
  /\ now >= peers[s].due
  /\ peers' = [peers EXCEPT ![s] = [@ EXCEPT !.pc = "inflight",
                                              !.due = Undefined]]
  /\ UNCHANGED peerFrame

\* a response that is stored in a budget all sessions share
PeerResponseShared(s) ==
  /\ peers[s].pc = "inflight"
  /\ \E h \in Headers :
       /\ rateLimit' = [reqRemaining |-> Number(h[1]),
                        resetMs |-> Number(h[2])]
       /\ peers' = [peers EXCEPT ![s] =
                      [@ EXCEPT !.pc = "idle", !.rateLimit = rateLimit']]
  /\ UNCHANGED <<options, listener, now, ticks, token, fetchVars, resetAt,
                 body, pgVars, lastHeaders, cohort, init, session, emitted>>

\* the response of the fetch on session s arrives (lines 124-135); the
\* session has no 'error' listener, so a non-2xx status throws before the
\* update
PeerResponse(s) ==
  /\ peers[s].pc = "inflight"
  /\ \E ok \in BOOLEAN, h \in Headers :
       peers' = [peers EXCEPT ![s] =
         IF ok THEN [@ EXCEPT !.pc = "idle",
                              !.rateLimit = [reqRemaining |-> Number(h[1]),
                                             resetMs |-> Number(h[2])]]
         ELSE [@ EXCEPT !.pc = "idle"]]
  /\ UNCHANGED peerFrame

\* one caller on an anonymous session, next to the other sessions
SessionsNext ==
  \/ Call(PgProc)
  \/ TimerFires(PgProc)
  \/ Response(PgProc)
  \/ Return(PgProc)
  \/ \E s \in Sessions : PeerNew(s)
  \/ \E s \in Sessions : PeerFetch(s)
  \/ \E s \in Sessions : PeerTimer(s)
  \/ \E s \in Sessions : PeerResponse(s)
  \/ Tick

SessionsSpec == AnonInit /\ [][SessionsNext]_vars

----------------------------------------------------------------------------
(* Reddit.create *)

\* Reddit.create is called with the argument `init`: the factory decides
\* (lines 36-58) and the RedditOauth constructor stores the options and the
\* token (lines 335-352)
Create ==
  /\ session = NoSession
  /\ session' = create(init)
  /\ options' = IF session'.kind = "oauth" THEN OptionsOf(init)
                ELSE NoOptions
  /\ token' = NewToken(options')
  /\ UNCHANGED <<listener, now, ticks, rateLimit, fetchVars, resetAt, body,
                 pgVars, lastHeaders, cohort, init, peers, emitted>>

\* every argument Reddit.create can be called with, before the call
CreateInit ==
  /\ init \in RedditInits
  /\ session = NoSession
  /\ options = NoOptions
  /\ listener = FALSE
  /\ now = T0
  /\ ticks = 0
  /\ token = NewToken(NoOptions)
  /\ rateLimit = [reqRemaining |-> 60, resetMs |-> T0 + 60000]
  /\ pc = [p \in Procs |-> "idle"]
  /\ auth = [p \in Procs |-> Undefined]
  /\ timerDue = [p \in Procs |-> Undefined]
  /\ result = [p \in Procs |-> "none"]
  /\ grants = 0
  /\ resetAt = T0 + 60000
  /\ issued = [p \in Procs |-> Undefined]
  /\ sent = [p \in Procs |-> NoSend]
  /\ body = [p \in Procs |-> NoBody]
  /\ pg = NoPaginate
  /\ requests = <<>>
  /\ served = <<>>
  /\ cbLog = <<>>
  /\ steps = [p \in Procs |-> <<>>]
  /\ lastHeaders = NoHeaders
  /\ cohort = {}
  /\ peers = [s \in Sessions |-> NewSession]
  /\ emitted = <<>>

CreateNext == Create

CreateSpec == CreateInit /\ [][CreateNext]_vars

----------------------------------------------------------------------------
(* Properties *)

Has(log, step) == \E i \in 1..Len(log) : log[i] = step

\* the steps that mark a failure inside a fetch call
Failed(log) ==
  \E i \in 1..Len(log) :
    log[i] \in {"noRefresh", "noLogin", "grantError", "grantReject",
                "httpError"}

RECURSIVE Flatten(_)
Flatten(pages) ==
  IF pages = <<>> THEN <<>>
  ELSE Flatten(SubSeq(pages, 1, Len(pages) - 1)) \o pages[Len(pages)].items

\* the pages paginate has taken so far: a page that has arrived but that
\* PageDone has not yet run on is not among them
Taken ==
  IF pg.pc = "fetching" /\ pc[PgProc] = "resolved"
     /\ body[PgProc].kind = "listing"
  THEN SubSeq(served, 1, Len(served) - 1)
  ELSE served

ItemLimit == LimitOrDefault(pg.params.limit)

\* C1: in an authenticated session every resource request is sent while the
\* stored token's expiry is strictly later than the time of the send
C1_TokenLiveAtSend ==
  IsOauth => \A p \in Procs : sent[p].done => sent[p].tokenLive

\* C2: at most one grant call of the session is in flight at any time
C2_SingleGrantInFlight ==
  Cardinality({p \in Procs : pc[p] = "granting"}) <= 1

\* C3: a fetch call that found the token expired and whose grant is answered
\* with a token eventually sends its resource request, and the request
\* carries an access token that a grant produced
C3_EveryCallSendsGranted ==
  \A p \in Procs :
    (pc[p] = "granting") ~> (sent[p].done /\ auth[p] \in 1..grants)

C3_Witness ==
  /\ \A p \in Procs : sent[p].done /\ auth[p] \in 1..grants
  /\ grants >= 2

\* C4: a fetch that finds remaining = 0 with the reset instant in the future
\* does not send before that instant
C4_NoSendBeforeReset ==
  \A p \in Procs : sent[p].done => ~sent[p].beforeReset

\* C5: the tracked remaining-request count is always an integer >= 0
C5_RemainingNat == rateLimit.reqRemaining \in Nat

\* C6: paginate returns only when the last page has no `after` or the items
\* accumulated have reached the item limit, and it requested a further page
\* only when neither was the case
C6_StopsExactlyAtLimit ==
  /\ pg.pc = "done" =>
       \/ Falsy(served[Len(served)].after)
       \/ Len(pg.items) >= ItemLimit
  /\ pg.pc \in {"fetching", "done"} =>
       \A k \in 1..(Len(requests) - 1) :
         /\ ~Falsy(served[k].after)
         /\ Len(Flatten(SubSeq(served, 1, k))) < ItemLimit

\* C7: the sequence paginate accumulates, and returns, is the concatenation
\* in fetch order of the full item lists of the pages it took
C7_Concatenation ==
  pg.pc \in {"fetching", "done"} => pg.items = Flatten(Taken)

C7_Witness ==
  /\ pg.pc = "done"
  /\ Len(served) = 2
  /\ served[1].items = served[2].items
  /\ Len(pg.items) = 200
  /\ ItemLimit = 150

\* C8: the first request carries the caller's `after` (none when the caller
\* gave none), request n+1 carries the `after` of page n, and no request
\* follows a page whose `after` is null
C8_CursorChain ==
  pg.pc \in {"fetching", "done"} =>
    /\ requests[1] = pg.params.after
    /\ \A n \in 1..(Len(requests) - 1) :
         /\ requests[n + 1] = served[n].after
         /\ served[n].after # "null"

C8_Witness ==
  /\ pg.pc = "done"
  /\ Len(requests) = 3
  /\ requests[2] # requests[3]
  /\ served[3].after = "null"

\* C9: within one traversal no cursor is requested twice
C9_NoRepeatedCursor ==
  \A i, j \in 1..Len(requests) : i # j => requests[i] # requests[j]

\* C10: a supplied callback has been invoked exactly once for every page
\* taken, with that page's items, after they were appended and before the
\* next request was issued, and for no other page
C10_CallbackPerPage ==
  (pg.pc # "idle" /\ pg.callback) =>
    /\ Len(cbLog) = Len(Taken)
    /\ \A i \in 1..Len(cbLog) :
         /\ cbLog[i].items = served[i].items
         /\ cbLog[i].total = Len(Flatten(SubSeq(served, 1, i)))
         /\ cbLog[i].requests = i

C10_Witness ==
  /\ pg.pc = "done"
  /\ pg.callback
  /\ Len(cbLog) = 3
  /\ cbLog[2].items = <<>>

\* C11: once the fetch of a page has met a failure (a failed token
\* acquisition or a non-2xx status) the traversal issues no further request,
\* makes no further callback and does not return normally
C11_FailureEndsTraversal ==
  [][(pg.pc = "fetching" /\ Failed(steps[PgProc])) =>
       /\ pg'.pc \in {"fetching", "error"}
       /\ requests' = requests
       /\ cbLog' = cbLog]_vars

\* C12: in a script session a fetch whose grant was answered with an
\* {error} body sends no resource request and does not resolve, and when it
\* has failed it has failed with an authentication error
C12_GrantErrorFailsFetch ==
  appType = "script" =>
    \A p \in Procs :
      Has(steps[p], "grantError") =>
        /\ ~Has(steps[p], "send")
        /\ pc[p] # "resolved"
        /\ pc[p] = "rejected" => result[p] = "AuthError"

\* C13: in a web session every grant is a refresh_token grant, and a fetch
\* that needs a token while no refresh token is held makes no grant call,
\* sends no resource request and does not resolve, and when it has failed it
\* has failed with an authentication error
C13_WebRefreshOrFail ==
  appType = "web" =>
    \A p \in Procs :
      /\ ~Has(steps[p], "password")
      /\ Has(steps[p], "noRefresh") =>
           /\ ~Has(steps[p], "refresh_token")
           /\ ~Has(steps[p], "send")
           /\ pc[p] # "resolved"
           /\ pc[p] = "rejected" => result[p] = "AuthError"

\* C14: a static-token session makes no grant call, and a fetch on it that
\* finds the token expired or without expiry sends no resource request and
\* does not resolve, and when it has failed it has failed with an
\* authentication error
C14_StaticFailsWhenExpired ==
  (IsOauth /\ appType = "undefined") =>
    /\ grants = 0
    /\ \A p \in Procs :
         Has(steps[p], "noGrant") =>
           /\ ~Has(steps[p], "send")
           /\ pc[p] # "resolved"
           /\ pc[p] = "rejected" => result[p] = "AuthError"

\* C15: in a script session every grant call, pending or answered, is a
\* password grant and none is a refresh_token grant, and once a grant has
\* stored a token the stored token carries no refresh token
C15_ScriptPasswordGrant ==
  appType = "script" =>
    /\ \A p \in Procs :
         /\ ~Has(steps[p], "refresh_token")
         /\ (pc[p] = "granting" \/ Has(steps[p], "granted")
               \/ Has(steps[p], "grantError") \/ Has(steps[p], "grantReject"))
              => Has(steps[p], "password")
    /\ token.access >= 1 => token.refresh = Undefined

C15_Witness ==
  /\ options = ScriptRefreshOptions
  /\ grants = 2
  /\ token.access = 2
  /\ \E p \in Procs : /\ Has(steps[p], "password")
                       /\ Has(steps[p], "granted")
                       /\ pc[p] = "resolved"

\* C16: after a completed exchange the rate-limit state holds the values of
\* the headers of the exchange completed last, whatever its status
C16_StateFollowsHeaders ==
  lastHeaders # NoHeaders =>
    rateLimit = [reqRemaining |-> Number(lastHeaders[1]),
                 resetMs |-> Number(lastHeaders[2])]

\* C17: a call that sends while remaining > 0 lowers the tracked remaining
\* count by one as it sends
C17_SendDecrements ==
  [][\A p \in Procs :
       (pc[p] # "inflight" /\ pc'[p] = "inflight"
        /\ rateLimit.reqRemaining > 0) =>
         rateLimit'.reqRemaining = rateLimit.reqRemaining - 1]_vars

\* C18: of the calls that were suspended at the gate together, at most one
\* has sent before the rate-limit state is stored again from a response
C18_OneSendAfterWait ==
  Cardinality({p \in cohort : pc[p] = "inflight"}) <= 1

\* C19: after a response without rate-limit headers, or with header values
\* that are not numbers, no call is suspended at the gate
C19_NoWaitWithoutHeaders ==
  [][\A p \in Procs :
       (pc[p] # "waiting" /\ pc'[p] = "waiting") =>
         lastHeaders \notin {<<"null", "null">>, <<"abc", "abc">>}]_vars

IsMainStep(step) == step \in {"token", "gate", "send", "update", "result"}

MainSteps == <<"token", "gate", "send", "update", "result">>

\* C20: the steps of every authenticated call are, in this order, the token
\* check (with the grant inside it), the gate, the send, the rate-limit
\* update and the result; a call in flight has gone through the first
\* three and a call that resolved through all five
C20_StepsInOrder ==
  IsOauth =>
    \A p \in Procs :
      LET main == SelectSeq(steps[p], IsMainStep)
      IN  /\ Len(main) <= Len(MainSteps)
          /\ main = SubSeq(MainSteps, 1, Len(main))
          /\ pc[p] = "inflight" => Len(main) = 3
          /\ pc[p] = "resolved" => main = MainSteps
          /\ \A i, j \in 1..Len(steps[p]) :
               (steps[p][i] \in {"password", "refresh_token", "granted",
                                 "grantError", "noRefresh", "noGrant"}
                /\ steps[p][j] = "gate") => i < j

C20_Witness ==
  \E p \in Procs :
    /\ pc[p] = "resolved"
    /\ steps[p] = <<"token", "refresh_token", "granted", "gate", "wait",
                    "send", "update", "result">>

\* C21: a call whose exchange returned a non-2xx status has failed with the
\* HTTP error and holds no decoded body
C21_HttpErrorFailsCall ==
  \A p \in Procs :
    Has(steps[p], "httpError") =>
      /\ pc[p] = "rejected"
      /\ result[p] = "HttpError"
      /\ body[p] = NoBody

\* the credential variants an argument holds completely
Complete(o) ==
  (IF o.clientId /\ o.clientSecret /\ o.username /\ o.password
   THEN {"script"} ELSE {})
  \cup (IF o.clientId /\ o.clientSecret /\ o.refreshToken
        THEN {"web"} ELSE {})
  \cup (IF o.accessToken THEN {"static"} ELSE {})

Variant(s) == IF s.appType = "undefined" THEN "static" ELSE s.appType

\* C22: Reddit.create answers no argument or userAgent alone with an
\* anonymous session, an argument that holds a complete credential with an
\* authenticated session of a variant the argument holds completely, and
\* every other argument with the 'Missing credentials' error
C22_CreateMapsCredentials ==
  session # NoSession =>
    IF ~init.given \/ (Keys(init) = 1 /\ init.userAgent)
    THEN session = AnonSession
    ELSE IF Complete(init) # {}
         THEN session.kind = "oauth" /\ Variant(session) \in Complete(init)
         ELSE session = MissingCredentials

\* C23: a step of a fetch on this session leaves the rateLimit of every
\* other session as it was, a step of a fetch on another session leaves the
\* rateLimit of this session and of the remaining sessions as it was, and
\* the gate of a session suspends a call exactly when that session's own
\* reqRemaining is 0
C23_RateLimitPerSession ==
  [][/\ pc' # pc =>
          \A s \in Sessions : peers'[s].rateLimit = peers[s].rateLimit
     /\ \A s \in Sessions :
          peers'[s].pc # peers[s].pc =>
            /\ rateLimit' = rateLimit
            /\ \A t \in Sessions \ {s} : peers'[t] = peers[t]
            /\ peers[s].pc = "idle" =>
                 (peers'[s].pc = "waiting"
                    <=> peers[s].rateLimit.reqRemaining = 0)
     /\ (pc[PgProc] = "idle" /\ pc'[PgProc] # "idle") =>
          (pc'[PgProc] = "waiting" <=> rateLimit.reqRemaining = 0)]_vars

C23_Witness ==
  /\ rateLimit.reqRemaining = 0
  /\ pc[PgProc] = "waiting"
  /\ \E s \in Sessions : /\ peers[s].rateLimit.reqRemaining = NaN
                          /\ peers[s].pc = "inflight"

\* the page requests of the running traversal that have not been answered
Outstanding == Len(requests) - Len(served)

\* C24: a traversal has at most one page request without a decoded answer,
\* none while paginate is taking a page, and the request for page n+1
\* carries the `after` value of page n
C24_OnePageInFlight ==
  /\ Outstanding \in {0, 1}
  /\ (pg.pc = "fetching" /\ pc[PgProc] = "resolved"
        /\ body[PgProc].kind = "listing") => Outstanding = 0
  /\ \A n \in 1..Len(requests) - 1 :
       /\ n <= Len(served)
       /\ requests[n + 1] = served[n].after

C24_Witness ==
  /\ Len(requests) = 3
  /\ Len(served) = 2
  /\ pc[PgProc] = "inflight"

\* C25: the token changes only in a step in which a grant call of the
\* session is answered with a token
C25_TokenWrittenByGrantOnly ==
  [][token' # token =>
       \E p \in Procs : /\ pc[p] = "granting"
                         /\ ~Has(steps[p], "granted")
                         /\ Has(steps'[p], "granted")]_vars

\* C26: a fetch that starts while the stored expiry is in the future makes
\* no grant call and hands the stored access token to the resource request,
\* and a grant answered with a token stores the instant of the answer plus
\* expires_in seconds as expiry
C26_NoGrantWhileLive ==
  [][\A p \in Procs :
       /\ (IsOauth /\ pc[p] = "idle" /\ pc'[p] # "idle"
           /\ token.expiry # Undefined /\ token.expiry > now) =>
            /\ grants' = grants
            /\ pc'[p] \in {"waiting", "inflight"}
            /\ auth'[p] = token.access
       /\ (pc[p] = "granting" /\ Has(steps'[p], "granted")) =>
            \E expires_in \in ExpiresIn :
              token'.expiry = now + expires_in * 1000]_vars

C26_Witness ==
  /\ grants = 1
  /\ token.access = 1
  /\ token.expiry > now
  /\ \E p \in Procs : /\ steps[p] = <<"token", "gate", "send">>
                       /\ auth[p] = 1

\* the session holds what getNewToken needs to make a grant call
CanGrant ==
  \/ appType = "script" /\ options.username /\ options.password
  \/ appType = "web" /\ token.refresh # Undefined

\* C27: a grant call that fails at transport level rejects the fetch that
\* made it with that failure, leaves the token as it was and still in need
\* of a grant, and that fetch sends no resource request; a fetch that starts
\* on a session in need of a token makes a new grant call
C27_TransportFailureFailsFetch ==
  [][\A p \in Procs :
       /\ (pc[p] = "granting" /\ Has(steps'[p], "grantReject")) =>
            /\ pc'[p] = "rejected"
            /\ result'[p] = "NetworkError"
            /\ token' = token
            /\ NeedsToken'
       /\ Has(steps'[p], "grantReject") => ~Has(steps'[p], "send")
       /\ (pc[p] = "idle" /\ pc'[p] # "idle" /\ NeedsToken /\ CanGrant) =>
            /\ pc'[p] = "granting"
            /\ grants' = grants + 1]_vars

C27_Witness ==
  /\ grants = 2
  /\ token = NewToken(options)
  /\ \E p \in Procs : /\ Has(steps[p], "grantReject")
                       /\ pc[p] = "rejected"
                       /\ result[p] = "NetworkError"

IsSend(step) == step = "send"

\* the resource requests call p has sent
Sends(p) == Len(SelectSeq(steps[p], IsSend))

\* C28: a fetch call sends its resource request at most twice, whatever the
\* statuses of the responses
C28_BoundedExchanges ==
  \A p \in Procs : Sends(p) <= 2

C28_Witness ==
  \E p \in Procs : /\ Has(steps[p], "httpError")
                    /\ pc[p] \in {"resolved", "rejected"}
                    /\ Sends(p) = 1

\* max(1, ceil(limit / 100)), with 100 for a limit that is absent or 0
MaxRequests(limit) ==
  LET l == IF limit \in {Undefined, 0} THEN 100 ELSE limit
      pages == (l + 99) \div 100
  IN  IF pages < 1 THEN 1 ELSE pages

\* C29: a traversal issues at most max(1, ceil(limit / 100)) page requests
\* for the caller's limit, whatever pages the server answers with
C29_RequestsBounded ==
  pg.pc # "idle" => Len(requests) <= MaxRequests(pg.params.limit)

C29_Witness ==
  /\ pg.pc = "done"
  /\ pg.params.limit = 250
  /\ Len(requests) = 3
  /\ Len(served) = 3
  /\ ~Falsy(served[3].after)
  /\ served[2].items = <<>>

\* C30: a web session holds the refresh token it was constructed with after
\* every refresh, and no fetch of it finds the refresh token missing
C30_RefreshTokenPreserved ==
  appType = "web" =>
    /\ token.refresh = NewToken(options).refresh
    /\ token.refresh # Undefined
    /\ \A p \in Procs : ~Has(steps[p], "noRefresh")

C30_Witness ==
  /\ appType = "web"
  /\ grants = 2
  /\ token.access = 2
  /\ token.refresh = RefreshOpt
  /\ \E p \in Procs : /\ Has(steps[p], "refresh_token")
                       /\ Has(steps[p], "granted")

\* the calls whose exchange was in flight together with another exchange
Concurrent == {p \in Procs : sent[p].together}

\* C31: once exchanges that were in flight at the same time have all
\* completed and no exchange is in flight, the rate-limit state holds the
\* header values of the response that was processed last
C31_LastResponseWins ==
  (/\ Concurrent # {}
   /\ \A p \in Concurrent : pc[p] \in {"resolved", "rejected"}
   /\ \A p \in Procs : pc[p] # "inflight") =>
    rateLimit = [reqRemaining |-> Number(lastHeaders[1]),
                 resetMs |-> Number(lastHeaders[2])]

\* C32: a step in which a refresh_token grant of a web session is answered
\* with a token emits one 'tokenRefreshed' event that carries the token the
\* step stored; no other step emits one, so a failed grant and a password
\* grant emit none
C32_TokenRefreshedPerRefresh ==
  [][IF \E p \in Procs : /\ pc[p] = "granting"
                          /\ Has(steps[p], "refresh_token")
                          /\ Has(steps'[p], "granted")
     THEN emitted' = Append(emitted, token')
     ELSE emitted' = emitted]_vars

C32_Witness ==
  /\ appType = "web"
  /\ grants = 2
  /\ Len(emitted) = 2
  /\ emitted[1].access = 1
  /\ emitted[2] = token
  /\ token.access = 2

====
